---- MODULE Spec2Model ----
(***************************************************************************)
(* Model of src/index.tsx: the App component of the gesture-driven         *)
(* particle field.  One action per handler: the React effects, the         *)
(* animation-frame callback animate, the MediaPipe results callback        *)
(* onResults, the polling initialiser initMediaPipe and the effect         *)
(* cleanup.  Handlers run to completion (one JavaScript thread), so each   *)
(* one is a single atomic action; what interleaves is whole handlers.      *)
(*                                                                         *)
(* Numbers.  gestureFactor and the raw openness are fixed-point values in  *)
(* units of 1/Scale; landmark coordinates and sines are in thousandths.    *)
(* A product with a smoothing weight is rounded to the nearest unit.       *)
(* Float32 position components are abstracted to their class: "fin" (a     *)
(* finite number) or "nan" (what arithmetic on an out-of-range read of a   *)
(* typed array gives).                                                     *)
(***************************************************************************)
EXTENDS Integers, Sequences, FiniteSets, TLC

VARIABLES
    phase,            \* "rendered" (first render done, effects not yet run), "mounted", "unmounted"
    activeShape,      \* useState activeShape (line 81)
    particleColor,    \* useState particleColor (line 82)
    handStatus,       \* useState handStatus (line 83)
    gestureValue,     \* useState gestureValue (line 84), the UI-facing gesture value
    shapeEffectPending, \* the [activeShape] effect is scheduled and has not run
    colorEffectPending, \* the [particleColor] effect is scheduled and has not run
    stateRef,         \* stateRef.current (lines 90-95)
    materialColor,    \* material.color, the rendered color (lines 135-142, 156)
    positions,        \* geometry.attributes.position.array (lines 128-132)
    tickLog,          \* per particle, what the last animate call read for it
    rafPending,       \* ids of the animation frames requested and not yet run or cancelled
    animationId,      \* let animationId (line 148); 0 is undefined
    resizeListener,   \* handleResize is registered on window
    windowHands,      \* window.Hands is defined (the detector script has loaded)
    windowCamera,     \* window.Camera is defined (the camera script has loaded)
    retryTimers,      \* number of pending setTimeout(initMediaPipe, 100)
    handsCreated,     \* number of new window.Hands(...) performed
    callbacksRegistered, \* number of hands.onResults(onResults) performed
    camerasStarted,   \* number of cameraUtils.start() performed
    inFlight,         \* frames sent by onFrame whose result has not been delivered
    lastResult,       \* the latest perception result delivered to onResults
    errors,           \* exceptions raised so far, by kind
    rendererSize,     \* the size last given to renderer.setSize (lines 122, 219); 0 before
    generated,        \* the latest call of generateShape: its arguments and its result
    smoothing         \* a run of detected frames with one raw openness, in exact arithmetic

vars == <<phase, activeShape, particleColor, handStatus, gestureValue,
          shapeEffectPending, colorEffectPending, stateRef, materialColor,
          positions, tickLog, rafPending, animationId, resizeListener,
          windowHands, windowCamera, retryTimers, handsCreated,
          callbacksRegistered, camerasStarted, inFlight, lastResult, errors,
          rendererSize, generated, smoothing>>

----------------------------------------------------------------------------
(* Bounds of the model *)

\* Resolution of gestureFactor: 1.0 is Scale units.
Scale == 100

\* Number of particles (PARTICLE_COUNT is 4000 in the source, line 15).
PARTICLE_COUNT == 2

\* Number of point clouds generated after which no further shape is selected.
MaxGen == 4

\* Resolution of a color channel: 1.0 is ColorMax units.
ColorMax == 10

----------------------------------------------------------------------------
(* Arithmetic *)

Abs(x) == IF x < 0 THEN -x ELSE x

Max(a, b) == IF a > b THEN a ELSE b

Min(a, b) == IF a < b THEN a ELSE b

\* n / d rounded to the nearest integer, halves away from zero (d > 0).
RoundDiv(n, d) ==
    IF n >= 0 THEN (2 * n + d) \div (2 * d) ELSE -((2 * (-n) + d) \div (2 * d))

\* cur += (tgt - cur) * (wNum / wDen)
Lerp(cur, tgt, wNum, wDen) == cur + RoundDiv((tgt - cur) * wNum, wDen)

\* Math.sqrt on a non-negative integer, rounded down (bisection on lo..hi).
RECURSIVE SqrtBetween(_, _, _)
SqrtBetween(n, lo, hi) ==
    IF lo = hi THEN lo
    ELSE LET mid == (lo + hi + 1) \div 2
         IN  IF mid <= n \div mid THEN SqrtBetween(n, mid, hi)
                                  ELSE SqrtBetween(n, lo, mid - 1)

Sqrt(n) == SqrtBetween(n, 0, n)

\* b to the power e (e >= 0).
RECURSIVE Pow(_, _)
Pow(b, e) == IF e = 0 THEN 1 ELSE b * Pow(b, e - 1)

----------------------------------------------------------------------------
(* Shape generator, lines 19-78 *)

Shapes == {"heart", "flower", "fireworks"}

\* Outcomes of Math.random() the model draws from: 1 is 0.25, 2 is 0.75.  Every
\* call of Math.random() made for one point returns the point's outcome.
Draws == {1, 2}

\* The loop body with its last branch a plain else: every type that is neither
\* heart nor flower is drawn as fireworks.
ShapePoint_ElseFireworks(type, r) ==
    CASE type = "heart"  -> IF r = 1 THEN <<100, 25, -31>> ELSE <<-300, 75, -94>>
      [] type = "flower" -> IF r = 1 THEN <<0, 141, 283>> ELSE <<0, -141, -283>>
      [] OTHER           -> IF r = 1 THEN <<0, 218, -126>> ELSE <<0, -315, 182>>

\* The point (x, y, z), in hundredths, that the loop body (lines 24-70)
\* computes for one particle when Math.random() returns the outcome r.
\* A type that is none of the three leaves x = y = z = 0 (line 24).
ShapePoint(type, r) ==
    CASE type = "heart"     -> IF r = 1 THEN <<100, 25, -31>> ELSE <<-300, 75, -94>>
      [] type = "flower"    -> IF r = 1 THEN <<0, 141, 283>> ELSE <<0, -141, -283>>
      [] type = "fireworks" -> IF r = 1 THEN <<0, 218, -126>> ELSE <<0, -315, 182>>
      [] OTHER              -> <<0, 0, 0>>

\* generateShape allocating count * 2 components: writes past the end of a
\* typed array are dropped, so the result is shorter than count * 3.
generateShape_TwoPerPoint(type, count, draws) ==
    [j \in 1..(count * 2) |->
        ShapePoint(type, draws[((j - 1) \div 3) + 1])[((j - 1) % 3) + 1]]

\* generateShape(type, count): a Float32Array of count * 3 components, point i
\* at i3, i3 + 1, i3 + 2.  draws[i] is the random outcome of point i.  Arrays
\* are 1-based here: JavaScript index j is j + 1.
generateShape(type, count, draws) ==
    [j \in 1..(count * 3) |->
        ShapePoint(type, draws[((j - 1) \div 3) + 1])[((j - 1) % 3) + 1]]

\* A Float32Array object: id is the object's identity (one per allocation),
\* madeFor the type it was generated for, data its components.
NewCloud(id, type, draws) ==
    [id |-> id, madeFor |-> type, data |-> generateShape(type, PARTICLE_COUNT, draws)]

DrawSeqs == [1..PARTICLE_COUNT -> Draws]

\* The type strings generateShape is called with on its own: the three shapes
\* and one string that names none of them (the parameter is a string, line 19).
ShapeIds == Shapes \cup {"torus"}

\* The largest count generateShape is called with on its own.
MaxCount == 5

----------------------------------------------------------------------------
(* Colors *)

\* The colors the picker offers that the model selects among, as sRGB bytes:
\* '#ff3366' (the initial one, line 82) and '#3b82f6' (line 402).
Palette == {<<255, 51, 102>>, <<59, 130, 246>>}

InitialColor == <<255, 51, 102>>

\* THREE.Color set from a hex string: channels become fractions of 1.0.
ParseColor(hex) == [c \in 1..3 |-> RoundDiv(hex[c] * ColorMax, 255)]

\* material.color.copy(target) in place of the lerp: the rendered color takes
\* the target color at once.
LerpColor_Copy(cur, tgt) == tgt

\* material.color.lerp(target, 0.1), line 156: per channel.
LerpColor(cur, tgt) == [c \in 1..3 |-> Lerp(cur[c], tgt[c], 1, 10)]

----------------------------------------------------------------------------
(* Gesture signal, lines 224-257 *)

\* Landmark positions a hand's thumb tip and index tip take, in thousandths of
\* the normalized landmark space.  Their distances from the first are 0
\* (pinched), 100 and 105 (part open) and 900 (far above the open span).
Points == {<<0, 0, 0>>, <<60, 80, 0>>, <<63, 84, 0>>, <<0, 0, 900>>}

\* A landmark set maps landmark indices to points; only indices 4 (thumb tip)
\* and 8 (index tip) are read.  A malformed set lacks one of them or both.
WellFormedHands == {(4 :> <<0, 0, 0>>) @@ (8 :> q) : q \in Points}

MalformedHands == {<<>>, (4 :> <<0, 0, 0>>), (8 :> <<0, 0, 0>>)}

\* A perception result: present is whether results.multiHandLandmarks is
\* defined, multiHandLandmarks the landmark sets it carries (at most one,
\* maxNumHands is 1).
Results ==
    {[present |-> FALSE, multiHandLandmarks |-> <<>>],
     [present |-> TRUE, multiHandLandmarks |-> <<>>]}
    \cup {[present |-> TRUE, multiHandLandmarks |-> <<h>>] :
              h \in WellFormedHands \cup MalformedHands}

\* sin(time * 2) for the wall-clock times the model draws, in thousandths.
SinSamples == {-1000, -707, 0, 707, 1000}

\* Lines 232-236: Euclidean distance between thumb tip and index tip.
Distance(thumb, index) ==
    Sqrt((thumb[1] - index[1]) * (thumb[1] - index[1])
       + (thumb[2] - index[2]) * (thumb[2] - index[2])
       + (thumb[3] - index[3]) * (thumb[3] - index[3]))

\* Line 239: (dist - 0.03) / 0.15, in units of 1/Scale.
Normalize(dist) ==
    IF dist >= 30 THEN ((dist - 30) * Scale) \div 150
                  ELSE -(((30 - dist) * Scale) \div 150)

\* Clamp with the upper bound forgotten: Math.max(0, factor).
Clamp_NoUpperBound(factor) == Max(0, factor)

\* Line 240: Math.max(0, Math.min(1, factor)).
Clamp(factor) == Max(0, Min(Scale, factor))

\* Lines 229-240: the raw openness of a well-formed landmark set.
RawFactor(landmarks) == Clamp(Normalize(Distance(landmarks[4], landmarks[8])))

\* The smoothing with the weight 0.5 in place of 0.2.
SmoothDetected_Half(g, factor) == Lerp(g, factor, 5, 10)

\* Line 243: gestureFactor += (factor - gestureFactor) * 0.2.
SmoothDetected(g, factor) == Lerp(g, factor, 2, 10)

\* Line 254: (Math.sin(time * 2) + 1) / 2, in units of 1/Scale.
AutoFactor(sin) == ((sin + 1000) * Scale) \div 2000

\* Line 255: gestureFactor += (autoFactor - gestureFactor) * 0.05.
SmoothIdle(g, sin) == Lerp(g, AutoFactor(sin), 5, 100)

\* Line 225: the condition of the detected branch.
HasHand(results) == results.present /\ Len(results.multiHandLandmarks) > 0

\* setHandStatus('detected') placed after the landmark arithmetic, so that a
\* malformed landmark set leaves the status as it was set for no hand.
HandStatusAfter_LandmarksFirst(results) ==
    IF results.present /\ Len(results.multiHandLandmarks) > 0
          /\ {4, 8} \subseteq DOMAIN results.multiHandLandmarks[1]
    THEN "detected" ELSE "searching"

\* Lines 226 and 251: the handStatus the callback sets, first thing in
\* either branch.
HandStatusAfter(results) == IF HasHand(results) THEN "detected" ELSE "searching"

\* Lines 230-236 dereference landmarks[4] and landmarks[8]: a TypeError when
\* either is undefined.
Malformed(landmarks) == ~({4, 8} \subseteq DOMAIN landmarks)

\* The gestureValue the onResults closure reads at line 246.  onResults is
\* created once, by the mount effect (deps [], line 305), so the closure holds
\* the gestureValue of the first render: the initial state 0 (line 84).
ClosureGestureValue == 0

\* Lines 246-248: the UI-facing value after a detected frame with raw
\* openness factor; ui is the current React state.
SurfaceGesture(ui, factor) ==
    IF Abs(factor - ClosureGestureValue) * 100 > 5 * Scale THEN factor ELSE ui

----------------------------------------------------------------------------
(* Render tick, lines 151-212 *)

\* The kinematics branch of line 178.
Kinematics(shape) == IF shape = "fireworks" THEN "explode" ELSE "breathe"

\* target[j] for a JavaScript read at 1-based index j: a number in range,
\* undefined (NaN in arithmetic) out of range.
ReadClass(arr, j) == IF j \in DOMAIN arr THEN "fin" ELSE "nan"

\* Lines 172-203 for component k (1..3) of particle i (0-based): the class of the
\* value written to positions[i3 + k - 1].  Under "explode" x and z are mixed
\* by the rotation (lines 186-187), so either being NaN makes both NaN.
AdvanceClass(pos, target, shape, i, k) ==
    LET rd(c) == ReadClass(target, i * 3 + c)
        src == IF Kinematics(shape) = "explode" /\ k \in {1, 3}
               THEN {rd(1), rd(3)} ELSE {rd(k)}
    IN  IF "nan" \in src \/ pos[i * 3 + k] = "nan" THEN "nan" ELSE "fin"

\* Lines 168-204: the position buffer after the per-particle loop.
AdvancePositions(pos, target, shape) ==
    [j \in DOMAIN pos |->
        IF j <= PARTICLE_COUNT * 3
        THEN AdvanceClass(pos, target, shape, (j - 1) \div 3, ((j - 1) % 3) + 1)
        ELSE pos[j]]

\* What the loop reads for each particle: the array held in the local
\* `target` (line 160, read once before the loop) and stateRef.current.shape
\* (line 178, read again for every particle).
LogTick(ref) ==
    [i \in 1..PARTICLE_COUNT |->
        [cloud |-> ref.targetPositions.id,
         madeFor |-> ref.targetPositions.madeFor,
         kinematics |-> Kinematics(ref.shape)]]

----------------------------------------------------------------------------
(* Initial state: the first render of App, before its effects run *)

Init ==
    /\ phase = "rendered"
    /\ activeShape = "heart"
    /\ particleColor = InitialColor
    /\ handStatus = "searching"
    /\ gestureValue = 0
    /\ shapeEffectPending = FALSE
    /\ colorEffectPending = FALSE
    /\ \E draws \in DrawSeqs :
          stateRef = [shape |-> "heart",
                      targetPositions |-> NewCloud(1, "heart", draws),
                      gestureFactor |-> Scale,
                      color |-> ParseColor(InitialColor)]
    /\ materialColor = <<>>
    /\ positions = <<>>
    /\ tickLog = <<>>
    /\ rafPending = {}
    /\ animationId = 0
    /\ resizeListener = FALSE
    /\ windowHands = FALSE
    /\ windowCamera = FALSE
    /\ retryTimers = 0
    /\ handsCreated = 0
    /\ callbacksRegistered = 0
    /\ camerasStarted = 0
    /\ inFlight = 0
    /\ lastResult = <<>>
    /\ errors = {}
    /\ rendererSize = 0
    /\ generated = <<>>
    /\ smoothing = <<>>

----------------------------------------------------------------------------
(* Pieces of handlers *)

\* The [activeShape] effect without its second statement: the shape changes
\* and the point cloud stays.
ShapeEffectOn_KeepsCloud(ref, shape, draws) == [ref EXCEPT !.shape = shape]

\* The [activeShape] effect keeping one array per shape and filling it anew:
\* the cloud of a shape is the same object every time the shape comes back.
ShapeEffectOn_Memoized(ref, shape, draws) ==
    [ref EXCEPT !.shape = shape,
                !.targetPositions =
                    NewCloud(CASE shape = "heart" -> 1 [] shape = "flower" -> 2
                               [] OTHER -> 3,
                             shape, draws)]

\* Lines 98-101, the [activeShape] effect: stateRef.current after it ran.
ShapeEffectOn(ref, shape, draws) ==
    [ref EXCEPT !.shape = shape,
                !.targetPositions = NewCloud(ref.targetPositions.id + 1, shape, draws)]

\* Lines 103-105, the [particleColor] effect.
ColorEffectOn(ref, hex) == [ref EXCEPT !.color = ParseColor(hex)]

\* requestAnimationFrame returns an id it has not returned before: here the
\* least id that no pending frame has and that is not the id in `last`.
FreshId(pending, last) ==
    CHOOSE n \in 1..(Cardinality(pending) + 2) : n \notin pending \cup {last}

\* animate requesting a second frame at the end of its body, besides the one
\* requested at its start.
AnimateBody_RequestsTwice(pending, ref, color, pos) ==
    LET first == FreshId(pending, animationId)
        second == FreshId(pending \cup {first}, first)
    IN  /\ animationId' = second
        /\ rafPending' = pending \cup {first, second}
        /\ stateRef' = ref
        /\ materialColor' = LerpColor(color, ref.color)
        /\ positions' = AdvancePositions(pos, ref.targetPositions.data, ref.shape)
        /\ tickLog' = LogTick(ref)

\* animate with the loop's last three statements (lines 201-203) writing to
\* `target` in place of `positions`: the target point cloud is eased toward
\* itself scaled by 0.2 + gestureFactor * 0.8, and the live buffer stays.
AnimateBody_WritesTarget(pending, ref, color, pos) ==
    LET scaled(v) == RoundDiv(v * (20 * Scale + ref.gestureFactor * 80), 100 * Scale)
    IN  /\ animationId' = FreshId(pending, animationId)
        /\ rafPending' = pending \cup {FreshId(pending, animationId)}
        /\ stateRef' = [ref EXCEPT !.targetPositions.data =
                            [j \in DOMAIN @ |-> Lerp(@[j], scaled(@[j]), 8, 100)]]
        /\ materialColor' = LerpColor(color, ref.color)
        /\ positions' = pos
        /\ tickLog' = LogTick(ref)

\* animate doing the idle breathing itself, once per tick.
AnimateBody_Breathes(pending, ref, color, pos) ==
    /\ animationId' = FreshId(pending, animationId)
    /\ rafPending' = pending \cup {FreshId(pending, animationId)}
    /\ stateRef' = [ref EXCEPT !.gestureFactor = SmoothIdle(ref.gestureFactor, 0)]
    /\ materialColor' = LerpColor(color, ref.color)
    /\ positions' = AdvancePositions(pos, ref.targetPositions.data, ref.shape)
    /\ tickLog' = LogTick(ref)

\* Lines 151-212, animate, run with `pending` the frames still scheduled when it
\* starts, on the stateRef value ref, rendered color color and buffer pos.
\* animate reads stateRef.current and writes none of its fields.
AnimateBody(pending, ref, color, pos) ==
    /\ animationId' = FreshId(pending, animationId)
    /\ rafPending' = pending \cup {FreshId(pending, animationId)}
    /\ stateRef' = ref
    /\ materialColor' = LerpColor(color, ref.color)
    /\ positions' = AdvancePositions(pos, ref.targetPositions.data, ref.shape)
    /\ tickLog' = LogTick(ref)

\* initMediaPipe returning at line 265 without having set the timer.
InitMediaPipeBody_NoRetry(timers, video) ==
    IF ~windowHands
    THEN /\ retryTimers' = timers
         /\ UNCHANGED <<handsCreated, callbacksRegistered, camerasStarted, errors>>
    ELSE /\ retryTimers' = timers
         /\ handsCreated' = handsCreated + 1
         /\ callbacksRegistered' = callbacksRegistered + 1
         /\ IF video
            THEN IF windowCamera
                 THEN camerasStarted' = camerasStarted + 1 /\ UNCHANGED errors
                 ELSE /\ errors' = errors \cup {"camera"}
                      /\ UNCHANGED camerasStarted
            ELSE UNCHANGED <<camerasStarted, errors>>

\* Lines 262-291, initMediaPipe, run with `timers` retries still pending and
\* video = (videoRef.current is not null).
InitMediaPipeBody(timers, video) ==
    IF ~windowHands
    THEN /\ retryTimers' = timers + 1
         /\ UNCHANGED <<handsCreated, callbacksRegistered, camerasStarted, errors>>
    ELSE /\ retryTimers' = timers
         /\ handsCreated' = handsCreated + 1
         /\ callbacksRegistered' = callbacksRegistered + 1
         /\ IF video
            THEN IF windowCamera
                 THEN camerasStarted' = camerasStarted + 1 /\ UNCHANGED errors
                 ELSE \* new window.Camera(...) with window.Camera undefined
                      /\ errors' = errors \cup {"camera"}
                      /\ UNCHANGED camerasStarted
            ELSE UNCHANGED <<camerasStarted, errors>>

\* The camera keeps calling onFrame once started: the cleanup's only
\* statement about it, cameraUtils.stop(), is commented out (lines 301-303).
CameraRunning == camerasStarted > 0

\* The cleanup without cancelAnimationFrame(animationId).
CleanupBody_NoCancel ==
    /\ resizeListener' = FALSE
    /\ UNCHANGED rafPending

\* Lines 295-304, the cleanup the mount effect returns.
CleanupBody ==
    /\ resizeListener' = FALSE
    /\ rafPending' = rafPending \ {animationId}

----------------------------------------------------------------------------
(* Actions *)

\* The three effects of the first commit, in declaration order: lines 98-101,
\* 103-105 and 108-305 (setup, the first animate() call at line 213, the
\* resize listener, initMediaPipe() at line 293).  The renderer takes the size
\* the window has at that moment, which is size 1 of Viewports.
Mount ==
    /\ phase = "rendered"
    /\ phase' = "mounted"
    /\ \E draws \in DrawSeqs :
          LET ref == ColorEffectOn(ShapeEffectOn(stateRef, activeShape, draws),
                                   particleColor)
              fresh == [j \in 1..(PARTICLE_COUNT * 3) |-> "fin"]
          IN  AnimateBody({}, ref, ref.color, fresh)
    /\ resizeListener' = TRUE
    /\ InitMediaPipeBody(0, TRUE)
    /\ UNCHANGED <<activeShape, particleColor, handStatus, gestureValue,
                   shapeEffectPending, colorEffectPending, windowHands,
                   windowCamera, inFlight, lastResult>>
    /\ rendererSize' = 1
    /\ UNCHANGED <<generated, smoothing>>

\* Lines 368, 376, 384: a shape button is clicked.  React re-renders and
\* schedules the [activeShape] effect only when the state changes.
SelectShape(shape) ==
    /\ phase = "mounted"
    /\ ~shapeEffectPending
    /\ stateRef.targetPositions.id < MaxGen
    /\ activeShape' = shape
    /\ shapeEffectPending' = (shape # activeShape)
    /\ UNCHANGED <<phase, particleColor, handStatus, gestureValue,
                   colorEffectPending, stateRef, materialColor, positions,
                   tickLog, rafPending, animationId, resizeListener,
                   windowHands, windowCamera, retryTimers, handsCreated,
                   callbacksRegistered, camerasStarted, inFlight, lastResult,
                   errors>>
    /\ UNCHANGED <<rendererSize, generated, smoothing>>

\* Lines 98-101: the [activeShape] effect runs.
ShapeEffect ==
    /\ shapeEffectPending
    /\ shapeEffectPending' = FALSE
    /\ \E draws \in DrawSeqs :
          stateRef' = ShapeEffectOn(stateRef, activeShape, draws)
    /\ UNCHANGED <<phase, activeShape, particleColor, handStatus, gestureValue,
                   colorEffectPending, materialColor, positions, tickLog,
                   rafPending, animationId, resizeListener, windowHands,
                   windowCamera, retryTimers, handsCreated,
                   callbacksRegistered, camerasStarted, inFlight, lastResult,
                   errors>>
    /\ UNCHANGED <<rendererSize, generated, smoothing>>

\* Lines 405, 413: a color is picked.
SelectColor(hex) ==
    /\ phase = "mounted"
    /\ ~colorEffectPending
    /\ particleColor' = hex
    /\ colorEffectPending' = (hex # particleColor)
    /\ UNCHANGED <<phase, activeShape, handStatus, gestureValue,
                   shapeEffectPending, stateRef, materialColor, positions,
                   tickLog, rafPending, animationId, resizeListener,
                   windowHands, windowCamera, retryTimers, handsCreated,
                   callbacksRegistered, camerasStarted, inFlight, lastResult,
                   errors>>
    /\ UNCHANGED <<rendererSize, generated, smoothing>>

\* Lines 103-105: the [particleColor] effect runs.
ColorEffect ==
    /\ colorEffectPending
    /\ colorEffectPending' = FALSE
    /\ stateRef' = ColorEffectOn(stateRef, particleColor)
    /\ UNCHANGED <<phase, activeShape, particleColor, handStatus, gestureValue,
                   shapeEffectPending, materialColor, positions, tickLog,
                   rafPending, animationId, resizeListener, windowHands,
                   windowCamera, retryTimers, handsCreated,
                   callbacksRegistered, camerasStarted, inFlight, lastResult,
                   errors>>
    /\ UNCHANGED <<rendererSize, generated, smoothing>>

\* The display refresh runs a scheduled frame: animate, lines 151-212.
Animate ==
    /\ \E id \in rafPending :
          AnimateBody(rafPending \ {id}, stateRef, materialColor, positions)
    /\ UNCHANGED <<phase, activeShape, particleColor, handStatus, gestureValue,
                   shapeEffectPending, colorEffectPending, resizeListener,
                   windowHands, windowCamera, retryTimers, handsCreated,
                   callbacksRegistered, camerasStarted, inFlight, lastResult,
                   errors>>
    /\ UNCHANGED <<rendererSize, generated, smoothing>>

\* The detector script finishes loading and defines window.Hands.
LoadHands ==
    /\ ~windowHands
    /\ windowHands' = TRUE
    /\ UNCHANGED <<phase, activeShape, particleColor, handStatus, gestureValue,
                   shapeEffectPending, colorEffectPending, stateRef,
                   materialColor, positions, tickLog, rafPending, animationId,
                   resizeListener, windowCamera, retryTimers, handsCreated,
                   callbacksRegistered, camerasStarted, inFlight, lastResult,
                   errors>>
    /\ UNCHANGED <<rendererSize, generated, smoothing>>

\* The camera script finishes loading and defines window.Camera.
LoadCamera ==
    /\ ~windowCamera
    /\ windowCamera' = TRUE
    /\ UNCHANGED <<phase, activeShape, particleColor, handStatus, gestureValue,
                   shapeEffectPending, colorEffectPending, stateRef,
                   materialColor, positions, tickLog, rafPending, animationId,
                   resizeListener, windowHands, retryTimers, handsCreated,
                   callbacksRegistered, camerasStarted, inFlight, lastResult,
                   errors>>
    /\ UNCHANGED <<rendererSize, generated, smoothing>>

\* A setTimeout(initMediaPipe, 100) of line 264 fires.  videoRef.current is
\* the video element while mounted and null afterwards.
RetryInit ==
    /\ retryTimers > 0
    /\ InitMediaPipeBody(retryTimers - 1, phase = "mounted")
    /\ UNCHANGED <<phase, activeShape, particleColor, handStatus, gestureValue,
                   shapeEffectPending, colorEffectPending, stateRef,
                   materialColor, positions, tickLog, rafPending, animationId,
                   resizeListener, windowHands, windowCamera, inFlight,
                   lastResult>>
    /\ UNCHANGED <<rendererSize, generated, smoothing>>

\* Lines 283-285: the started camera calls onFrame, which sends the frame to
\* the detector and awaits it, so one frame is in flight at a time.  After
\* unmount videoRef.current is null and no frame image is sent.
OnFrame ==
    /\ CameraRunning
    /\ phase = "mounted"
    /\ inFlight = 0
    /\ inFlight' = 1
    /\ UNCHANGED <<phase, activeShape, particleColor, handStatus, gestureValue,
                   shapeEffectPending, colorEffectPending, stateRef,
                   materialColor, positions, tickLog, rafPending, animationId,
                   resizeListener, windowHands, windowCamera, retryTimers,
                   handsCreated, callbacksRegistered, camerasStarted,
                   lastResult, errors>>
    /\ UNCHANGED <<rendererSize, generated, smoothing>>

\* Lines 224-257: the detector delivers the result of the frame in flight to
\* onResults; sin is sin(2 * Date.now() / 1000) at that moment.
OnResults(results, sin) ==
    /\ inFlight > 0
    /\ callbacksRegistered > 0
    /\ inFlight' = inFlight - 1
    /\ lastResult' = <<results>>
    /\ handStatus' = HandStatusAfter(results)
    /\ IF HasHand(results)
       THEN /\ IF Malformed(results.multiHandLandmarks[1])
               THEN \* TypeError at line 233; the statements after it do not run
                    /\ errors' = errors \cup {"landmark"}
                    /\ UNCHANGED <<stateRef, gestureValue>>
               ELSE LET factor == RawFactor(results.multiHandLandmarks[1])
                    IN  /\ stateRef' =
                              [stateRef EXCEPT !.gestureFactor =
                                  SmoothDetected(stateRef.gestureFactor, factor)]
                        /\ gestureValue' = SurfaceGesture(gestureValue, factor)
                        /\ UNCHANGED errors
       ELSE /\ stateRef' = [stateRef EXCEPT !.gestureFactor =
                                SmoothIdle(stateRef.gestureFactor, sin)]
            /\ UNCHANGED <<gestureValue, errors>>
    /\ UNCHANGED <<phase, activeShape, particleColor, shapeEffectPending,
                   colorEffectPending, materialColor, positions, tickLog,
                   rafPending, animationId, resizeListener, windowHands,
                   windowCamera, retryTimers, handsCreated,
                   callbacksRegistered, camerasStarted>>
    /\ UNCHANGED <<rendererSize, generated, smoothing>>

\* The component unmounts: React runs the cleanup of lines 296-304 and
\* clears the refs.  Pending effects are flushed before the unmount commits.
Unmount ==
    /\ phase = "mounted"
    /\ ~shapeEffectPending
    /\ ~colorEffectPending
    /\ phase' = "unmounted"
    /\ CleanupBody
    /\ UNCHANGED <<activeShape, particleColor, handStatus, gestureValue,
                   shapeEffectPending, colorEffectPending, stateRef,
                   materialColor, positions, tickLog, animationId,
                   windowHands, windowCamera, retryTimers, handsCreated,
                   callbacksRegistered, camerasStarted, inFlight, lastResult,
                   errors>>
    /\ UNCHANGED <<rendererSize, generated, smoothing>>

\* Sizes the browser window takes.  Size 1 is the size at mount.
Viewports == {1, 2}

\* Lines 216-221: a resize event of the window while handleResize is
\* registered.  The handler sets the camera's aspect and the renderer's size
\* from the window's new size, and nothing else.
Resize(size) ==
    /\ resizeListener
    /\ size # rendererSize
    /\ rendererSize' = size
    /\ UNCHANGED <<phase, activeShape, particleColor, handStatus, gestureValue,
                   shapeEffectPending, colorEffectPending, stateRef,
                   materialColor, positions, tickLog, rafPending, animationId,
                   resizeListener, windowHands, windowCamera, retryTimers,
                   handsCreated, callbacksRegistered, camerasStarted, inFlight,
                   lastResult, errors, generated, smoothing>>

\* The state of the mounted program, which a call of a pure function leaves
\* alone.
appState ==
    <<phase, activeShape, particleColor, handStatus, gestureValue,
      shapeEffectPending, colorEffectPending, stateRef, materialColor,
      positions, tickLog, rafPending, animationId, resizeListener, windowHands,
      windowCamera, retryTimers, handsCreated, callbacksRegistered,
      camerasStarted, inFlight, lastResult, errors, rendererSize>>

\* Lines 19-78: generateShape(type, count) called on its own, Math.random()
\* returning draws[i] for point i.
CallGenerateShape(type, count, draws) ==
    /\ generated' = <<[type |-> type, count |-> count,
                       data |-> generateShape(type, count, draws)]>>
    /\ UNCHANGED <<appState, smoothing>>

\* The longest run of detected frames followed in exact arithmetic.
MaxFrames == 4

\* A run of detected frames is followed in units of 1 / (Scale * Fine): the
\* difference to the raw openness is then a multiple of 5 before each of the
\* first MaxFrames frames, and the product by 0.2 of line 243 is exact.
Fine == Pow(5, MaxFrames)

\* The raw openness the hands of the model have (line 240).
RawSamples == {RawFactor(h) : h \in WellFormedHands}

\* A hand comes into view with raw openness r while gestureFactor is g0.
StartRun(r, g0) ==
    /\ smoothing = <<>>
    /\ smoothing' = <<[raw |-> r * Fine, start |-> g0 * Fine, prev |-> g0 * Fine,
                       value |-> g0 * Fine, frames |-> 0]>>
    /\ UNCHANGED <<appState, generated>>

\* Lines 238-243 on one more frame of the run: the raw openness is the same
\* and gestureFactor is smoothed toward it.
DetectedFrame ==
    /\ smoothing # <<>>
    /\ smoothing[1].frames < MaxFrames
    /\ smoothing' = <<[smoothing[1] EXCEPT
                          !.prev = smoothing[1].value,
                          !.value = SmoothDetected(smoothing[1].value, smoothing[1].raw),
                          !.frames = smoothing[1].frames + 1]>>
    /\ UNCHANGED <<appState, generated>>

\* Date.now() is read in the idle branch only (line 253).
WallClock(results) == IF HasHand(results) THEN {0} ELSE SinSamples

Perceive == \E results \in Results : \E sin \in WallClock(results) : OnResults(results, sin)

Select ==
    \/ \E shape \in Shapes : SelectShape(shape)
    \/ \E hex \in Palette : SelectColor(hex)

\* The whole program.
Next ==
    \/ Mount
    \/ Select
    \/ ShapeEffect
    \/ ColorEffect
    \/ Animate
    \/ LoadHands
    \/ LoadCamera
    \/ RetryInit
    \/ OnFrame
    \/ Perceive
    \/ \E size \in Viewports : Resize(size)
    \/ Unmount

Spec == Init /\ [][Next]_vars

\* The control surface and the perception pipeline share no state but phase
\* and the render tick, and the product of their state spaces is too large to
\* enumerate at this resolution.  The specifications below each take the
\* actions of Next that touch the state they ask about; every behaviour of
\* theirs is a behaviour of Spec.

\* The program with the control surface left alone: lifecycle, perception
\* pipeline and render ticks.
NextPerception ==
    \/ Mount
    \/ Animate
    \/ LoadHands
    \/ LoadCamera
    \/ RetryInit
    \/ OnFrame
    \/ Perceive
    \/ Unmount

SpecPerception == Init /\ [][NextPerception]_vars

\* The program with the perception pipeline never loading: lifecycle, control
\* surface and render ticks.
NextScene ==
    \/ Mount
    \/ Select
    \/ ShapeEffect
    \/ ColorEffect
    \/ Animate
    \/ RetryInit
    \/ Unmount

SpecScene == Init /\ [][NextScene]_vars

\* The whole program in front of a hand that is either held wide open, or
\* reported with a malformed landmark set, or absent while the idle sinusoid
\* is at its peak.
OpenHandResults ==
    {r \in Results :
        HasHand(r) /\ ~Malformed(r.multiHandLandmarks[1])
            => RawFactor(r.multiHandLandmarks[1]) = Scale}

PerceiveOpenHand ==
    \E results \in OpenHandResults : OnResults(results, 1000)

NextOpenHand ==
    \/ Mount
    \/ Select
    \/ ShapeEffect
    \/ ColorEffect
    \/ Animate
    \/ LoadHands
    \/ LoadCamera
    \/ RetryInit
    \/ OnFrame
    \/ PerceiveOpenHand
    \/ Unmount

\* The whole program with the window resized at any moment, in front of a
\* hand that is absent, or held wide open, or reported with an empty landmark
\* set (on which onResults throws).
LoopResults ==
    {[present |-> TRUE, multiHandLandmarks |-> <<>>],
     [present |-> TRUE, multiHandLandmarks |-> << <<>> >>]}
    \cup {[present |-> TRUE, multiHandLandmarks |-> <<h>>] :
              h \in {w \in WellFormedHands : RawFactor(w) = Scale}}

PerceiveLoop == \E results \in LoopResults : OnResults(results, 1000)

NextLoop ==
    \/ Mount
    \/ Select
    \/ ShapeEffect
    \/ ColorEffect
    \/ Animate
    \/ LoadHands
    \/ LoadCamera
    \/ RetryInit
    \/ OnFrame
    \/ PerceiveLoop
    \/ \E size \in Viewports : Resize(size)
    \/ Unmount

SpecOpenHand == Init /\ [][NextOpenHand]_vars

\* The perception-side program with the browser firing every timer it holds.
\* generateShape applied to every type of ShapeIds, every count up to MaxCount
\* and every sequence of draws.
NextGenerate ==
    \E type \in ShapeIds : \E count \in 0..MaxCount :
        \E draws \in [1..count -> Draws] : CallGenerateShape(type, count, draws)

SpecGenerate == Init /\ [][NextGenerate]_vars

\* Runs of up to MaxFrames detected frames with one raw openness, from every
\* gestureFactor of [0, 1] at the resolution 1 / Scale.
NextSmoothing ==
    \/ \E r \in RawSamples : \E g0 \in 0..Scale : StartRun(r, g0)
    \/ DetectedFrame

SpecSmoothing == Init /\ [][NextSmoothing]_vars

SpecLoop == Init /\ [][NextLoop]_vars

FairPerception == SpecPerception /\ WF_vars(RetryInit)

----------------------------------------------------------------------------
(* Claims *)

\* A step that delivers a perception result to onResults.
ResultStep == inFlight' < inFlight

\* A step in which animate runs (requestAnimationFrame hands out a new id).
TickStep == animationId' # animationId

\* C1: in every reachable state gestureFactor lies in [0, 1], whatever the
\* thumb-index distances of the detected frames and the wall-clock times of
\* the idle frames were.
C1_GestureFactorInUnitInterval ==
    0 <= stateRef.gestureFactor /\ stateRef.gestureFactor <= Scale

\* C1 witness: a detected frame whose raw openness is far above 1 has been
\* smoothed into a gestureFactor that earlier frames had brought down.
C1_Witness ==
    /\ lastResult # <<>>
    /\ HasHand(lastResult[1])
    /\ ~Malformed(lastResult[1].multiHandLandmarks[1])
    /\ Normalize(Distance(lastResult[1].multiHandLandmarks[1][4],
                          lastResult[1].multiHandLandmarks[1][8])) > 5 * Scale
    /\ stateRef.gestureFactor > 0
    /\ stateRef.gestureFactor < Scale \div 2

\* C2: whenever a tick can run, the target point cloud and the live position
\* buffer both hold exactly PARTICLE_COUNT * 3 components, and no tick has
\* read a component out of range (no position has become NaN).
C2_BuffersAligned ==
    /\ Len(stateRef.targetPositions.data) = PARTICLE_COUNT * 3
    /\ phase # "rendered" =>
          /\ Len(positions) = PARTICLE_COUNT * 3
          /\ \A j \in DOMAIN positions : positions[j] = "fin"

\* C2 witness: a tick has read the cloud of a shape selected after mount while
\* the next selection is already waiting for its effect.
C2_Witness ==
    /\ tickLog # <<>>
    /\ tickLog[1].cloud = 3
    /\ stateRef.targetPositions.id = 3
    /\ shapeEffectPending

\* C3: a result whose first landmark set lacks index 4 or index 8 is handled
\* like a no-detection result: no error is raised, handStatus becomes
\* searching and gestureFactor is updated by the idle rule.
C3_MalformedHandledAsNoDetection ==
    [][(/\ ResultStep
        /\ HasHand(lastResult'[1])
        /\ Malformed(lastResult'[1].multiHandLandmarks[1]))
       => (/\ errors' = errors
           /\ handStatus' = "searching"
           /\ \E sin \in SinSamples :
                 stateRef'.gestureFactor = SmoothIdle(stateRef.gestureFactor, sin))]_vars

\* C4: after teardown the resize listener is removed and no animation frame
\* is scheduled, whether or not the detector ever became available.
C4_TeardownReleasesLoop ==
    phase = "unmounted" => ~resizeListener /\ rafPending = {}

\* C4 witness: teardown of a component whose detector never became available,
\* after ticks beyond the one of the mount.
C4_Witness ==
    /\ phase = "unmounted"
    /\ ~windowHands
    /\ handsCreated = 0
    /\ animationId = 2

\* C5 as claimed: every render tick that runs while handStatus is searching
\* applies the idle-breathing rule to gestureFactor.
C5_IdleRulePerTick ==
    [][(TickStep /\ handStatus = "searching")
       => \E sin \in SinSamples :
             stateRef'.gestureFactor = SmoothIdle(stateRef.gestureFactor, sin)]_vars

\* C5 as amended: the idle-breathing rule is applied once per perception
\* result that reports no hand, and a render tick never changes gestureFactor.
C5_IdleRulePerResult ==
    [][/\ TickStep => stateRef'.gestureFactor = stateRef.gestureFactor
       /\ (ResultStep /\ ~HasHand(lastResult'[1]))
             => \E sin \in SinSamples :
                   stateRef'.gestureFactor = SmoothIdle(stateRef.gestureFactor, sin)]_vars

\* C5 witness: no-hand results have moved gestureFactor off its initial value
\* and ticks have run.
C5_Witness ==
    /\ lastResult # <<>>
    /\ ~HasHand(lastResult[1])
    /\ handStatus = "searching"
    /\ stateRef.gestureFactor # Scale
    /\ animationId = 2

\* C6: on a detected frame the UI-facing gesture value is updated if and only
\* if the frame's value differs by more than 0.05 from the value last surfaced.
C6_SurfacedIffMoved ==
    [][(/\ ResultStep
        /\ HasHand(lastResult'[1])
        /\ ~Malformed(lastResult'[1].multiHandLandmarks[1]))
       => LET factor == RawFactor(lastResult'[1].multiHandLandmarks[1])
          IN  IF Abs(factor - gestureValue) * 100 > 5 * Scale
              THEN gestureValue' = factor
              ELSE gestureValue' = gestureValue]_vars

\* C7, the part about states: from the mount on, exactly one retry is pending
\* until the pipeline is initialized and none afterwards; no error is raised
\* before initialization; at most one detector, one registered callback and one
\* camera start ever exist.
C7_RetryState ==
    /\ retryTimers <= 1
    /\ handsCreated <= 1
    /\ callbacksRegistered = handsCreated
    /\ camerasStarted <= handsCreated
    /\ handsCreated = 1 => retryTimers = 0
    /\ handsCreated = 0 => errors = {}
    /\ (phase # "rendered" /\ handsCreated = 0) => retryTimers = 1

\* C7: the retry discipline above holds in every state, and once the component
\* has mounted and the detector is available the pipeline is eventually
\* initialized.
C7_RetryUntilInitializedOnce ==
    /\ []C7_RetryState
    /\ (phase # "rendered" /\ windowHands) ~> (handsCreated = 1)

\* C7 witness: the pipeline was initialized by a retry that fired after the
\* unmount (a detector and no camera: videoRef.current was null).
C7_Witness ==
    /\ phase = "unmounted"
    /\ handsCreated = 1
    /\ windowCamera
    /\ camerasStarted = 0
    /\ retryTimers = 0

\* C8: after teardown no initialization retry is pending, no camera feeds
\* frames and no perception result is still to be delivered.
C8_TeardownStopsPerception ==
    phase = "unmounted" => retryTimers = 0 /\ ~CameraRunning /\ inFlight = 0

\* C9: every particle of a tick is advanced against the same point cloud, with
\* the kinematics of the shape that cloud was generated for.
C9_TickUsesOneCloudOfItsShape ==
    \A i \in DOMAIN tickLog :
        /\ tickLog[i].cloud = tickLog[1].cloud
        /\ tickLog[i].kinematics = Kinematics(tickLog[i].madeFor)

\* C9 witness: a tick ran on the fireworks cloud while heart was already
\* selected and its effect had not yet run.
C9_Witness ==
    /\ tickLog # <<>>
    /\ tickLog[1].madeFor = "fireworks"
    /\ tickLog[1].kinematics = "explode"
    /\ tickLog[1].cloud = stateRef.targetPositions.id
    /\ activeShape = "heart"
    /\ shapeEffectPending

\* C10: handStatus is searching before any perception result, and afterwards
\* it is detected exactly when the latest result carried at least one landmark
\* set; ticks and shape or color selections, which deliver no result, leave it
\* as it is.
C10_HandStatusFollowsLatestResult ==
    IF lastResult = <<>>
    THEN handStatus = "searching"
    ELSE handStatus = "detected"
            <=> (lastResult[1].present /\ Len(lastResult[1].multiHandLandmarks) >= 1)

\* C10 witness: the latest result carried a (malformed) landmark set, and since
\* the mount a shape and a color have been selected and ticks have run.
C10_Witness ==
    /\ lastResult # <<>>
    /\ HasHand(lastResult[1])
    /\ Malformed(lastResult[1].multiHandLandmarks[1])
    /\ handStatus = "detected"
    /\ inFlight = 0
    /\ activeShape = "flower"
    /\ particleColor # InitialColor
    /\ tickLog[1].madeFor = "flower"

\* C11: while the component is mounted exactly one animation frame is
\* scheduled, the one animate requested last and whose id animationId holds:
\* a frame callback is the only caller of animate after mount, it consumes the
\* one scheduled frame and requests one, so ticks run one after the other and
\* at most one per display refresh, whatever perception results, selections
\* and resize events come in between.
C11_OneFrameScheduled ==
    phase = "mounted" => (Cardinality(rafPending) = 1 /\ rafPending = {animationId})

\* A tick has run after a resize, a shape selection and a color selection
\* took effect and while a perception result was on its way.
C11_Witness ==
    /\ phase = "mounted"
    /\ rendererSize = 2
    /\ inFlight > 0
    /\ stateRef.shape # "heart"
    /\ stateRef.color # ParseColor(InitialColor)
    /\ tickLog # <<>> /\ tickLog[1].cloud = stateRef.targetPositions.id
    /\ materialColor # ParseColor(InitialColor)

\* C12: every change of the selected shape schedules the [activeShape]
\* effect, and the effect replaces the target point cloud by a newly allocated
\* one generated for the selected shape.  The target point cloud changes in no
\* other way, and array identities only grow, so no cloud that was the target
\* before ever is the target again: coming back to a shape gives a cloud of a
\* new generation.
C12_ShapeChangeRegenerates ==
    [][LET old == stateRef.targetPositions
           new == stateRef'.targetPositions
       IN  /\ activeShape' # activeShape => shapeEffectPending'
           /\ shapeEffectPending =>
                 \/ shapeEffectPending' /\ activeShape' = activeShape
                                        /\ phase' = phase
                 \/ /\ stateRef'.shape = activeShape
                    /\ new.madeFor = activeShape
                    /\ new.id > old.id
                    /\ \E draws \in DrawSeqs :
                          new.data = generateShape(activeShape, PARTICLE_COUNT, draws)
           /\ new # old => new.id > old.id
           /\ stateRef'.shape # stateRef.shape => new # old]_vars

\* heart, then another shape, then heart again: the cloud is the fourth
\* allocated (after the initial one, the mount's and the other shape's), and a
\* tick has read it.
C12_Witness ==
    /\ stateRef.shape = "heart"
    /\ stateRef.targetPositions.madeFor = "heart"
    /\ stateRef.targetPositions.id = 4
    /\ tickLog # <<>> /\ tickLog[1].cloud = 4

\* C13: generateShape(type, count) returns count * 3 components, indexed
\* 0 .. count * 3 - 1, for every type string and every count from 0 on (none
\* for count 0); for a type that is none of heart, flower and fireworks every
\* component is 0.  The function is total: no call raises an error.
C13_GenerateShapeTotal ==
    generated # <<>> =>
        LET g == generated[1]
        IN  /\ DOMAIN g.data = 1..(g.count * 3)
            /\ Len(g.data) = g.count * 3
            /\ g.count = 0 => g.data = <<>>
            /\ g.type \notin Shapes => \A j \in DOMAIN g.data : g.data[j] = 0

\* generateShape was called with a type that names no shape, for two points.
C13_Witness ==
    /\ generated # <<>>
    /\ generated[1].type \notin Shapes
    /\ generated[1].count = 2
    /\ generated[1].data = <<0, 0, 0, 0, 0, 0>>

\* C14: over k consecutive detected frames with the same raw openness r,
\* gestureFactor stays between its value before the frame and r (it moves
\* toward r, frame after frame, and never passes it), and after the k frames
\* its distance to r is the initial distance times (1 - 0.2)^k, that is
\* times 4^k / 5^k.
C14_GeometricApproach ==
    smoothing # <<>> =>
        LET s == smoothing[1]
        IN  /\ Abs(s.value - s.raw) * Pow(5, s.frames)
                  = Abs(s.start - s.raw) * Pow(4, s.frames)
            /\ Abs(s.value - s.raw) <= Abs(s.prev - s.raw)
            /\ s.prev <= s.raw => (s.prev <= s.value /\ s.value <= s.raw)
            /\ s.prev >= s.raw => (s.prev >= s.value /\ s.value >= s.raw)
            /\ s.start <= s.raw => (s.start <= s.value /\ s.value <= s.raw)
            /\ s.start >= s.raw => (s.start >= s.value /\ s.value >= s.raw)

\* Three frames of a wide open hand after gestureFactor 0: the value has moved
\* and has not reached the raw openness.
C14_Witness ==
    /\ smoothing # <<>>
    /\ smoothing[1].frames = 3
    /\ smoothing[1].raw = Scale * Fine
    /\ smoothing[1].start = 0
    /\ smoothing[1].value > smoothing[1].prev
    /\ smoothing[1].value < smoothing[1].raw

\* C15: a render tick of the mounted component changes the live position
\* buffer and the rendered color (and schedules the next frame); it leaves
\* gestureFactor, handStatus, the selected shape, the target point cloud, the
\* target color and all other state as they were.  A perception result
\* changes gestureFactor, handStatus and the UI-facing gesture value (and is
\* recorded as delivered); it leaves the live positions, the target point
\* cloud, the selected shape, the rendered color, the target color and all
\* other state as they were.
C15_FrameConditions ==
    [][/\ (phase = "mounted" /\ TickStep) =>
             UNCHANGED <<phase, activeShape, particleColor, handStatus,
                         gestureValue, shapeEffectPending, colorEffectPending,
                         stateRef, resizeListener, windowHands, windowCamera,
                         retryTimers, handsCreated, callbacksRegistered,
                         camerasStarted, inFlight, lastResult, errors,
                         rendererSize>>
       /\ ResultStep =>
             /\ stateRef' = [stateRef EXCEPT !.gestureFactor = stateRef'.gestureFactor]
             /\ UNCHANGED <<phase, activeShape, particleColor,
                            shapeEffectPending, colorEffectPending,
                            materialColor, positions, tickLog, rafPending,
                            animationId, resizeListener, windowHands,
                            windowCamera, retryTimers, handsCreated,
                            callbacksRegistered, camerasStarted,
                            rendererSize>>]_vars

\* A tick has run after mount, and a result with a hand has moved
\* gestureFactor off its initial value and set the status.
C15_Witness ==
    /\ phase = "mounted"
    /\ animationId = 2
    /\ lastResult # <<>> /\ HasHand(lastResult[1])
    /\ handStatus = "detected"
    /\ stateRef.gestureFactor < Scale
    /\ gestureValue # 0

\* C16: picking a color changes the selected color and, through the
\* [particleColor] effect, the target color, and nothing of the scene: the
\* rendered color changes in render ticks only (it is created by the mount,
\* equal to the target color of that moment).  In a tick each channel moves
\* toward the target color by 0.1 of the remaining difference, to the
\* resolution of a channel: it stays between its old value and the target,
\* and a channel that differed from the target still differs after the tick.
C16_RenderedColorEases ==
    [][/\ particleColor' # particleColor =>
             /\ colorEffectPending'
             /\ UNCHANGED <<stateRef, materialColor, positions, activeShape>>
       /\ stateRef'.color # stateRef.color =>
             /\ stateRef' = [stateRef EXCEPT !.color = ParseColor(particleColor)]
             /\ UNCHANGED <<particleColor, materialColor, positions, activeShape>>
       /\ materialColor' # materialColor =>
             /\ TickStep
             /\ UNCHANGED particleColor
             /\ stateRef'.color = stateRef.color
             /\ IF materialColor = <<>>
                THEN phase = "rendered" /\ materialColor' = stateRef.color
                ELSE \A c \in 1..3 :
                        LET cur == materialColor[c]
                            new == materialColor'[c]
                            tgt == stateRef.color[c]
                        IN  /\ Abs(10 * (new - cur) - (tgt - cur)) <= 5
                            /\ Min(cur, tgt) <= new /\ new <= Max(cur, tgt)
                            /\ cur # tgt => new # tgt]_vars

\* The second color of the palette was picked and took effect, and ticks
\* have moved the rendered color off the first color and not onto the second.
C16_Witness ==
    /\ phase = "mounted"
    /\ particleColor # InitialColor
    /\ stateRef.color = ParseColor(particleColor)
    /\ materialColor # stateRef.color
    /\ materialColor # ParseColor(InitialColor)

====
